---------------------------- MODULE Spec2Model ----------------------------
(***************************************************************************)
(* A model of the SHT31 driver of src/curer/sht31.py and of the HTTP layer *)
(* of src/curer/app.py: the bus traffic of every public operation (command *)
(* write, blocking sleep, block read), the CRC validation of the returned  *)
(* frames, the values the operations return, bus calls that raise, and the *)
(* handling of a request by the Flask views.                               *)
(*                                                                         *)
(* Time is an integer number of milliseconds; only time.sleep lets it      *)
(* pass (a bus transaction that took time would only lengthen the gaps     *)
(* the timing claims bound from below).  A float result is kept as an      *)
(* exact rational with the fixed denominator 65535 (the 0xFFFF of the      *)
(* transfer functions): Float(n) stands for n / 65535, NaN for             *)
(* float("nan").  The register of _crc8 is an unbounded integer, kept as   *)
(* its binary digits.                                                      *)
(***************************************************************************)
EXTENDS Integers, Sequences, FiniteSets

\* ------------------------------------------------------------------ bounds

\* No operation starts more than MaxTime milliseconds into a period of
\* main's loop (the first period starts with the clock, at 0).
MaxTime == 70
\* main's loop pauses at most this many times.
MaxPauses == 1
\* A blocking sleep of d ms returns after d .. d + MaxJitter ms.
MaxJitter == 1
\* The count of CRC failures seen so far saturates here.
MaxCrcFailures == 2
\* HTTP requests that may be under way together.
MaxRequests == 3
\* _crc8 is applied to byte sequences of at most this length.
MaxCrcLen == 3
\* Raw counts are drawn within this distance of the anchor counts.
RawWindow == 1

\* ------------------------------------------------------- program constants

SHT31_I2CADDR == 68
SHT31_MEAS_HIGHREP == 9216
SHT31_READSTATUS == 62253
SHT31_CLEARSTATUS == 12353
SHT31_SOFTRESET == 12450
SHT31_HEATER_ON == 12397
SHT31_HEATER_OFF == 12390

SHT31_STATUS_DATA_CRC_ERROR == 1
SHT31_STATUS_COMMAND_ERROR == 2
SHT31_STATUS_RESET_DETECTED == 16
SHT31_STATUS_TEMPERATURE_ALERT == 1024
SHT31_STATUS_HUMIDITY_ALERT == 2048
SHT31_STATUS_HEATER_ACTIVE == 8192
SHT31_STATUS_ALERT_PENDING == 32768

\* time.sleep(0.05), time.sleep(0.01), time.sleep(0.015), in milliseconds
InitSleepMs == 50
ResetSleepMs == 10
MeasSleepMs == 15
\* time.sleep(2) of main, in milliseconds
MainSleepMs == 2000

I2C_DEVICE_BUS == 1

\* --------------------------------------------------------- integer bit ops

RECURSIVE BitAnd(_, _)
BitAnd(a, b) ==
    IF a = 0 \/ b = 0 THEN 0
    ELSE ((a % 2) * (b % 2)) + 2 * BitAnd(a \div 2, b \div 2)

RECURSIVE BitOr(_, _)
BitOr(a, b) ==
    IF a = 0 THEN b
    ELSE IF b = 0 THEN a
    ELSE (IF (a % 2) = 1 \/ (b % 2) = 1 THEN 1 ELSE 0) + 2 * BitOr(a \div 2, b \div 2)

\* ------------------------------------------------------------------- _crc8

\* The CRC register is a Python int, never masked before the return: it is
\* kept as its binary digits, least significant first, as long as need be.
RECURSIVE ToBits(_)
ToBits(n) == IF n = 0 THEN <<>> ELSE <<n % 2>> \o ToBits(n \div 2)

BitAt(x, i) == IF i <= Len(x) THEN x[i] ELSE 0

\* x ^ y
BitsXor(x, y) ==
    [i \in 1..(IF Len(x) >= Len(y) THEN Len(x) ELSE Len(y)) |->
        (BitAt(x, i) + BitAt(y, i)) % 2]

\* x << 1
ShiftLeft(x) == <<0>> \o x

\* x & 0xFF, as a number
Low8(x) ==
    BitAt(x, 1) + 2 * BitAt(x, 2) + 4 * BitAt(x, 3) + 8 * BitAt(x, 4)
    + 16 * BitAt(x, 5) + 32 * BitAt(x, 6) + 64 * BitAt(x, 7)
    + 128 * BitAt(x, 8)

\* One pass of the inner loop: shift, and XOR the polynomial in if bit 0x80
\* was set.
CrcShift(crc) ==
    IF BitAt(crc, 8) # 0 THEN BitsXor(ShiftLeft(crc), ToBits(49))
    ELSE ShiftLeft(crc)

\* for i in range(8, 0, -1)
RECURSIVE CrcBits(_, _)
CrcBits(crc, i) == IF i = 0 THEN crc ELSE CrcBits(CrcShift(crc), i - 1)

\* for index in range(0, len(buf)): crc ^= buf[index]; 8 shifts
RECURSIVE CrcBytes(_, _, _)
CrcBytes(crc, buf, index) ==
    IF index > Len(buf) THEN crc
    ELSE CrcBytes(CrcBits(BitsXor(crc, ToBits(buf[index])), 8), buf,
                  index + 1)

\* Fault injection: only the low 7 bits of the register returned.
crc8_mask7(buf) == Low8(CrcBytes(ToBits(255), buf, 1)) % 128

\* crc = 0xFF; ...; return crc & 0xFF
crc8(buf) == Low8(CrcBytes(ToBits(255), buf, 1))

\* ------------------------------------------------------------ value shapes

NaN == [isNaN |-> TRUE, num |-> 0]
Float(n) == [isNaN |-> FALSE, num |-> n]

None == [kind |-> "None"]
IntVal(n) == [kind |-> "int", val |-> n]
BoolVal(b) == [kind |-> "bool", val |-> b]
TupleVal(p) == [kind |-> "tuple", t |-> p[1], h |-> p[2]]
FloatVal(f) == [kind |-> "float", f |-> f]
TypeError == [kind |-> "raise", exc |-> "TypeError"]
Pending == [kind |-> "pending"]


\* ------------------------------------------------- decoding (pure functions)

\* Fault injection: read_status returning a best-effort word on a bad CRC.
read_status_besteffort(buf) == IntVal(BitOr(buf[1] * 256, buf[2]))

\* read_status, from the block read on: the status word, or None on a bad CRC
read_status(buf) ==
    LET stat == BitOr(buf[1] * 256, buf[2])
    IN  IF buf[3] # crc8(SubSeq(buf, 1, 2)) THEN None ELSE IntVal(stat)

\* Fault injection: a predicate coercing an absent status to false.
StatusPredicate_coerce(status, mask) ==
    IF status.kind = "None" THEN BoolVal(FALSE)
    ELSE BoolVal(BitAnd(status.val, mask) # 0)

\* bool(self.read_status() & MASK): None & int raises TypeError
StatusPredicate(status, mask) ==
    IF status.kind = "None" THEN TypeError
    ELSE BoolVal(BitAnd(status.val, mask) # 0)

\* Fault injection: the two words of the frame taken low byte first.
Measure_lowfirst(buf) ==
    IF buf[3] # crc8(SubSeq(buf, 1, 2))
    THEN [result |-> <<NaN, NaN>>, crcCalls |-> 1, crcFailed |-> 1]
    ELSE LET rawTemperature == BitOr(buf[2] * 256, buf[1])
             temperature == Float(175 * rawTemperature - 45 * 65535)
         IN  IF buf[6] # crc8(SubSeq(buf, 4, 5))
             THEN [result |-> <<NaN, NaN>>, crcCalls |-> 2, crcFailed |-> 1]
             ELSE LET rawHumidity == BitOr(buf[5] * 256, buf[4])
                      humidity == Float(100 * rawHumidity)
                  IN  [result |-> <<temperature, humidity>>,
                       crcCalls |-> 2, crcFailed |-> 0]

\* The body of read_temperature_humidity from the block read on: the pair
\* it returns, the calls of _crc8 it makes and the comparisons that fail.
Measure(buf) ==
    IF buf[3] # crc8(SubSeq(buf, 1, 2))
    THEN [result |-> <<NaN, NaN>>, crcCalls |-> 1, crcFailed |-> 1]
    ELSE LET rawTemperature == BitOr(buf[1] * 256, buf[2])
             temperature == Float(175 * rawTemperature - 45 * 65535)
         IN  IF buf[6] # crc8(SubSeq(buf, 4, 5))
             THEN [result |-> <<NaN, NaN>>, crcCalls |-> 2, crcFailed |-> 1]
             ELSE LET rawHumidity == BitOr(buf[4] * 256, buf[5])
                      humidity == Float(100 * rawHumidity)
                  IN  [result |-> <<temperature, humidity>>,
                       crcCalls |-> 2, crcFailed |-> 0]

\* read_temperature_humidity, from the block read on: (temperature, humidity)
read_temperature_humidity(buf) == Measure(buf).result

\* ------------------------------------------------------------ environment

\* Addresses a driver may be constructed with (0x44 default, 0x45 alternate).
Addresses == {68, 69}

\* data word + CRC byte as the sensor may deliver them, intact or corrupted
MeasTriplets ==
    { <<0, 0, 129>>, <<0, 0, 0>>,
      <<98, 77, 124>>, <<98, 77, 125>>,
      <<255, 255, 172>> }

MeasFrames == { a \o b : a \in MeasTriplets, b \in MeasTriplets }

StatusFrames ==
    { <<0, 0, 129>>, <<0, 0, 0>>,
      <<32, 0, 93>>, <<32, 0, 0>>,
      <<128, 16, 225>>, <<255, 255, 172>>,
      <<4, 17, 112>>, <<4, 2, 96>> }

\* Each frame the environment may deliver, with what the decoding makes of
\* it (computed once per frame).
MeasOutcomes ==
    { [frame |-> f, outcome |-> Measure(f)] : f \in MeasFrames }
StatusOutcomes ==
    { [frame |-> f, outcome |-> read_status(f)] : f \in StatusFrames }

MeasOps == {"read_temperature_humidity", "read_temperature", "read_humidity"}

\* Fault injection: heater-active and alert-pending test each other's bit.
PredicateMask_swapped ==
    [ is_data_crc_error |-> SHT31_STATUS_DATA_CRC_ERROR,
      is_command_error |-> SHT31_STATUS_COMMAND_ERROR,
      is_reset_detected |-> SHT31_STATUS_RESET_DETECTED,
      is_tracking_temperature_alert |-> SHT31_STATUS_TEMPERATURE_ALERT,
      is_tracking_humidity_alert |-> SHT31_STATUS_HUMIDITY_ALERT,
      is_heater_active |-> SHT31_STATUS_ALERT_PENDING,
      is_alert_pending |-> SHT31_STATUS_HEATER_ACTIVE ]

\* the seven status predicates and their masks
PredicateMask ==
    [ is_data_crc_error |-> SHT31_STATUS_DATA_CRC_ERROR,
      is_command_error |-> SHT31_STATUS_COMMAND_ERROR,
      is_reset_detected |-> SHT31_STATUS_RESET_DETECTED,
      is_tracking_temperature_alert |-> SHT31_STATUS_TEMPERATURE_ALERT,
      is_tracking_humidity_alert |-> SHT31_STATUS_HUMIDITY_ALERT,
      is_heater_active |-> SHT31_STATUS_HEATER_ACTIVE,
      is_alert_pending |-> SHT31_STATUS_ALERT_PENDING ]

PredicateOps == DOMAIN PredicateMask
StatusOps == {"read_status"} \cup PredicateOps

Requests == 1..MaxRequests

\* a request slot that has not been answered
NoResponse == [status |-> 0]

\* ------------------------------------------------------------------ state

VARIABLES
    pc,           \* where the driver is: uninit, init_sleep, ready, ...
    op,           \* the public operation running or last completed
    now,          \* the clock, ms
    address,      \* self.address
    openedAt,     \* when smbus.SMBus(...) returned, ms
    bus,          \* the bus transactions of the running / last operation
    prevWrite,    \* the last command write of the operations before it
    buffer,       \* the frame the block read of this operation returned
    ret,          \* what the operation returned (or raised)
    crcCalls,     \* the calls of _crc8 made by this operation
    crcFailures,  \* CRC mismatches seen since construction (saturating)
    i2c,          \* the constructor's i2c argument (a bus index)
    device,       \* the index of the bus self._device is connected to
    args,         \* the arguments of the operation running / last completed
    \* inputs and results of the pure functions applied on their own
    crcIn, crcOut, decA, decB, decOut,
    \* app.py: the requests under way and the module's globals
    reqPc, reqRoute, response, last_measurement, last_measurement_time

driver == <<pc, op, now, address, openedAt, bus, prevWrite, buffer, ret,
            crcCalls, crcFailures, i2c, device, args>>
bench == <<crcIn, crcOut, decA, decB, decOut>>
web == <<reqPc, reqRoute, response, last_measurement, last_measurement_time>>

vars == <<driver, bench, web>>

NoEvent == [ev |-> "none", addr |-> 0, reg |-> 0, arg |-> 0, at |-> 0]

\* Fault injection: the opcode's bytes written the other way round.
writeCommand_swapped(cmd) ==
    [ev |-> "write", addr |-> address, reg |-> BitAnd(cmd, 255),
     arg |-> cmd \div 256, at |-> now]

\* self._device.write_byte_data(self.address, cmd >> 8, cmd & 0xFF)
writeCommand(cmd) ==
    [ev |-> "write", addr |-> address, reg |-> cmd \div 256,
     arg |-> BitAnd(cmd, 255), at |-> now]

\* self._device.read_i2c_block_data(self.address, register, length)
readBytes(register, length) ==
    [ev |-> "read", addr |-> address, reg |-> register, arg |-> length,
     at |-> now]

Writes(log) == SelectSeq(log, LAMBDA e : e.ev = "write")
Reads(log) == SelectSeq(log, LAMBDA e : e.ev = "read")
LastWrite(log) ==
    IF Writes(log) = <<>> THEN prevWrite ELSE Writes(log)[Len(Writes(log))]

Saturate(n) == IF n > MaxCrcFailures THEN MaxCrcFailures ELSE n

\* time.sleep(ms / 1000): blocks for at least ms
Sleep(ms) == \E j \in 0..MaxJitter : now' = now + ms + j

\* The clock still allows an operation to start.
ClockOpen == now % MainSleepMs <= MaxTime

\* A public operation is entered: the caller is back from the previous one.
Enter(name, cmd) ==
    /\ pc = "ready"
    /\ ClockOpen
    /\ op' = name
    /\ prevWrite' = LastWrite(bus)
    /\ bus' = <<writeCommand(cmd)>>
    /\ buffer' = <<>>
    /\ crcCalls' = 0

\* Bus indexes a driver may be constructed with (1 default).
BusIndexes == {0, 1}

\* Nothing under way on the bench of pure functions.
BenchIdle ==
    /\ crcIn = <<>>
    /\ crcOut = -1
    /\ decA = 0
    /\ decB = 0
    /\ decOut = <<>>

\* app.py as loaded: no request yet, the globals as lines 12-13 set them.
WebIdle ==
    /\ reqPc = [r \in Requests |-> "idle"]
    /\ reqRoute = [r \in Requests |-> "none"]
    /\ response = [r \in Requests |-> NoResponse]
    /\ last_measurement = <<None, None>>
    /\ last_measurement_time = None

\* The driver before SHT31() is called.
DriverInit ==
    /\ pc = "uninit"
    /\ op = "none"
    /\ now = 0
    /\ address = SHT31_I2CADDR
    /\ openedAt = 0
    /\ bus = <<>>
    /\ prevWrite = NoEvent
    /\ buffer = <<>>
    /\ ret = Pending
    /\ crcCalls = 0
    /\ crcFailures = 0
    /\ i2c = I2C_DEVICE_BUS
    /\ device = -1
    /\ args = <<>>

Init == DriverInit /\ BenchIdle /\ WebIdle

\* ---------------------------------------------------------------- actions

\* __init__ up to the opening of the bus
Construct ==
    /\ pc = "uninit"
    /\ \E a \in Addresses : address' = a
    /\ \E i \in BusIndexes : i2c' = i
    /\ device' = I2C_DEVICE_BUS
    /\ openedAt' = now
    /\ pc' = "init_sleep"
    /\ op' = "__init__"
    /\ UNCHANGED <<now, bus, prevWrite, buffer, ret, crcCalls, crcFailures,
                   args, bench, web>>

\* Fault injection: __init__ sleeping 5 ms instead of 50.
InitSettle_short ==
    /\ pc = "init_sleep"
    /\ Sleep(5)
    /\ pc' = "ready"
    /\ UNCHANGED <<op, address, openedAt, i2c, device, args,
                   bus, prevWrite, buffer, ret, crcCalls, crcFailures,
                   bench, web>>

\* __init__: time.sleep(0.05)
InitSettle ==
    /\ pc = "init_sleep"
    /\ Sleep(InitSleepMs)
    /\ pc' = "ready"
    /\ UNCHANGED <<op, address, openedAt, i2c, device, args,
                   bus, prevWrite, buffer, ret, crcCalls, crcFailures,
                   bench, web>>

\* reset: the SoftReset write
Reset ==
    /\ Enter("reset", SHT31_SOFTRESET)
    /\ pc' = "reset_sleep"
    /\ ret' = Pending
    /\ args' = <<>>
    /\ UNCHANGED <<now, address, i2c, device, openedAt, crcFailures,
                   bench, web>>

\* Fault injection: reset returning without its sleep.
ResetSettle_nosleep ==
    /\ pc = "reset_sleep"
    /\ pc' = "ready"
    /\ ret' = None
    /\ UNCHANGED <<op, now, address, openedAt, i2c, device,
                   args, bus, prevWrite, buffer, crcCalls, crcFailures,
                   bench, web>>

\* reset: time.sleep(0.01)
ResetSettle ==
    /\ pc = "reset_sleep"
    /\ Sleep(ResetSleepMs)
    /\ pc' = "ready"
    /\ ret' = None
    /\ UNCHANGED <<op, address, openedAt, i2c, device, args,
                   bus, prevWrite, buffer, crcCalls, crcFailures, bench,
                   web>>

clear_status ==
    /\ Enter("clear_status", SHT31_CLEARSTATUS)
    /\ pc' = "ready"
    /\ ret' = None
    /\ args' = <<>>
    /\ UNCHANGED <<now, address, i2c, device, openedAt, crcFailures,
                   bench, web>>

\* Fault injection: the heater commands the wrong way round.
set_heater_inverted ==
    \E doEnable \in BOOLEAN :
        /\ Enter("set_heater",
                 IF doEnable THEN SHT31_HEATER_OFF ELSE SHT31_HEATER_ON)
        /\ pc' = "ready"
        /\ ret' = None
        /\ args' = <<doEnable>>
        /\ UNCHANGED <<now, address, i2c, device, openedAt, crcFailures,
                       bench, web>>

\* set_heater(doEnable): HeaterOn or HeaterOff
set_heater ==
    \E doEnable \in BOOLEAN :
        /\ Enter("set_heater",
                 IF doEnable THEN SHT31_HEATER_ON ELSE SHT31_HEATER_OFF)
        /\ pc' = "ready"
        /\ ret' = None
        /\ args' = <<doEnable>>
        /\ UNCHANGED <<now, address, i2c, device, openedAt, crcFailures,
                       bench, web>>

\* read_status, or a predicate calling it: the ReadStatus write
StatusBegin ==
    \E name \in StatusOps :
        /\ Enter(name, SHT31_READSTATUS)
        /\ pc' = "status_read"
        /\ ret' = Pending
        /\ args' = <<>>
        /\ UNCHANGED <<now, address, i2c, device, openedAt, crcFailures,
                       bench, web>>

\* read_status from the block read on, then the predicate's mask if any
StatusEnd ==
    /\ pc = "status_read"
    /\ \E read \in StatusOutcomes :
        LET status == read.outcome
        IN  /\ buffer' = read.frame
            /\ ret' = IF op = "read_status" THEN status
                      ELSE StatusPredicate(status, PredicateMask[op])
            /\ crcFailures' =
                 Saturate(crcFailures + IF status.kind = "None" THEN 1 ELSE 0)
    /\ bus' = Append(bus, readBytes(0, 3))
    /\ crcCalls' = crcCalls + 1
    /\ pc' = "ready"
    /\ UNCHANGED <<op, now, address, openedAt, i2c, device,
                   args, prevWrite, bench, web>>

\* read_temperature_humidity (alone or under read_temperature /
\* read_humidity): the MeasureHighRep write
MeasureBegin ==
    \E name \in MeasOps :
        /\ Enter(name, SHT31_MEAS_HIGHREP)
        /\ pc' = "meas_sleep"
        /\ ret' = Pending
        /\ args' = <<>>
        /\ UNCHANGED <<now, address, i2c, device, openedAt, crcFailures,
                       bench, web>>

\* Fault injection: the conversion wait left out.
MeasureWait_nosleep ==
    /\ pc = "meas_sleep"
    /\ pc' = "meas_read"
    /\ UNCHANGED <<op, now, address, openedAt, i2c, device,
                   args, bus, prevWrite, buffer, ret, crcCalls,
                   crcFailures, bench, web>>

\* read_temperature_humidity: time.sleep(0.015)
MeasureWait ==
    /\ pc = "meas_sleep"
    /\ Sleep(MeasSleepMs)
    /\ pc' = "meas_read"
    /\ UNCHANGED <<op, address, openedAt, i2c, device, args,
                   bus, prevWrite, buffer, ret, crcCalls, crcFailures,
                   bench, web>>

\* Fault injection: a CRC failure answered by measuring again.
MeasureEnd_retry ==
    /\ pc = "meas_read"
    /\ \E read \in MeasOutcomes :
        LET m == read.outcome
            again == m.crcFailed > 0
        IN  /\ buffer' = read.frame
            /\ ret' = IF again THEN Pending
                      ELSE CASE op = "read_temperature_humidity" ->
                                  TupleVal(m.result)
                             [] op = "read_temperature" ->
                                  FloatVal(m.result[1])
                             [] op = "read_humidity" -> FloatVal(m.result[2])
            /\ crcCalls' = crcCalls + m.crcCalls
            /\ crcFailures' = Saturate(crcFailures + m.crcFailed)
            /\ bus' = IF again
                      THEN bus \o <<readBytes(0, 6),
                                     writeCommand(SHT31_MEAS_HIGHREP)>>
                      ELSE Append(bus, readBytes(0, 6))
            /\ pc' = IF again THEN "meas_sleep" ELSE "ready"
    /\ UNCHANGED <<op, now, address, openedAt, i2c, device,
                   args, prevWrite, bench, web>>

\* Fault injection: a driver that latches a fault once any CRC has failed.
MeasureEnd_latched ==
    /\ pc = "meas_read"
    /\ \E read \in MeasOutcomes :
        LET m == IF crcFailures > 0
                 THEN [result |-> <<NaN, NaN>>, crcCalls |-> 0, crcFailed |-> 0]
                 ELSE read.outcome
        IN  /\ buffer' = read.frame
            /\ ret' = CASE op = "read_temperature_humidity" ->
                             TupleVal(m.result)
                        [] op = "read_temperature" -> FloatVal(m.result[1])
                        [] op = "read_humidity" -> FloatVal(m.result[2])
            /\ crcCalls' = crcCalls + m.crcCalls
            /\ crcFailures' = Saturate(crcFailures + m.crcFailed)
    /\ bus' = Append(bus, readBytes(0, 6))
    /\ pc' = "ready"
    /\ UNCHANGED <<op, now, address, openedAt, i2c, device,
                   args, prevWrite, bench, web>>

\* read_temperature_humidity from the block read on, then the caller's pick
MeasureRead(read) ==
    /\ pc = "meas_read"
    /\ LET m == read.outcome
       IN  /\ buffer' = read.frame
           /\ ret' = CASE op = "read_temperature_humidity" ->
                            TupleVal(m.result)
                       [] op = "read_temperature" -> FloatVal(m.result[1])
                       [] op = "read_humidity" -> FloatVal(m.result[2])
           /\ crcCalls' = crcCalls + m.crcCalls
           /\ crcFailures' = Saturate(crcFailures + m.crcFailed)
    /\ bus' = Append(bus, readBytes(0, 6))
    /\ pc' = "ready"
    /\ UNCHANGED <<op, now, address, openedAt, i2c, device,
                   args, prevWrite, web>>

\* ... with the bus delivering any of the frames of MeasFrames
MeasureEnd ==
    /\ \E read \in MeasOutcomes : MeasureRead(read)
    /\ UNCHANGED bench

\* main: the pair is printed, then time.sleep(2) before the loop measures
\* again.  main constructs its driver with the default arguments and goes
\* on only when read_temperature_humidity returned.
MainSleep ==
    /\ pc = "ready"
    /\ op = "read_temperature_humidity"
    /\ ret.kind = "tuple"
    /\ address = SHT31_I2CADDR
    /\ i2c = I2C_DEVICE_BUS
    /\ bus[Len(bus)].at = now
    /\ now \div MainSleepMs < MaxPauses
    /\ Sleep(MainSleepMs)
    /\ UNCHANGED <<pc, op, address, openedAt, i2c, device, args,
                   bus, prevWrite, buffer, ret, crcCalls, crcFailures,
                   bench, web>>

Next ==
    \/ Construct
    \/ InitSettle
    \/ Reset
    \/ ResetSettle
    \/ clear_status
    \/ set_heater
    \/ StatusBegin
    \/ StatusEnd
    \/ MeasureBegin
    \/ MeasureWait
    \/ MeasureEnd
    \/ MainSleep

Spec == Init /\ [][Next]_vars

\* ------------------------------------------------- bus transport failures

\* write_byte_data / read_i2c_block_data raising: the driver has no
\* try/except, so the exception leaves the public operation as it is.
IOError == [kind |-> "raise", exc |-> "IOError"]

\* Every call a caller can make: operation, opcode written, arguments.
Commands ==
    { <<"reset", SHT31_SOFTRESET, <<>> >>,
      <<"clear_status", SHT31_CLEARSTATUS, <<>> >>,
      <<"set_heater", SHT31_HEATER_ON, <<TRUE>> >>,
      <<"set_heater", SHT31_HEATER_OFF, <<FALSE>> >> }
    \cup { <<name, SHT31_READSTATUS, <<>> >> : name \in StatusOps }
    \cup { <<name, SHT31_MEAS_HIGHREP, <<>> >> : name \in MeasOps }

\* Fault injection: a failed command write caught and ignored, the
\* operation going on to its block read.
WriteFails_swallowed ==
    /\ pc = "ready"
    /\ ClockOpen
    /\ \E c \in Commands :
        /\ op' = c[1]
        /\ bus' = <<[writeCommand(c[2]) EXCEPT !.ev = "write_failed"]>>
        /\ args' = c[3]
        /\ pc' = IF c[1] \in StatusOps THEN "status_read"
                 ELSE IF c[1] \in MeasOps THEN "meas_read" ELSE "ready"
        /\ ret' = IF c[1] \in StatusOps \cup MeasOps THEN Pending ELSE None
    /\ prevWrite' = LastWrite(bus)
    /\ buffer' = <<>>
    /\ crcCalls' = 0
    /\ UNCHANGED <<now, address, i2c, device, openedAt, crcFailures,
                   bench, web>>

\* An operation whose command write fails: _writeCommand raises, nothing
\* after it in the operation runs.
WriteFails ==
    /\ pc = "ready"
    /\ ClockOpen
    /\ \E c \in Commands :
        /\ op' = c[1]
        /\ bus' = <<[writeCommand(c[2]) EXCEPT !.ev = "write_failed"]>>
        /\ args' = c[3]
    /\ prevWrite' = LastWrite(bus)
    /\ buffer' = <<>>
    /\ crcCalls' = 0
    /\ ret' = IOError
    /\ pc' = "ready"
    /\ UNCHANGED <<now, address, i2c, device, openedAt, crcFailures,
                   bench, web>>

\* An operation whose block read fails: _readBytes raises before any byte
\* is looked at.
ReadFails ==
    /\ pc \in {"status_read", "meas_read"}
    /\ bus' = Append(bus, [readBytes(0, IF pc = "status_read" THEN 3 ELSE 6)
                             EXCEPT !.ev = "read_failed"])
    /\ ret' = IOError
    /\ pc' = "ready"
    /\ UNCHANGED <<op, now, address, openedAt, i2c, device, args, prevWrite,
                   buffer, crcCalls, crcFailures, bench, web>>

NextFault ==
    \/ Next
    \/ WriteFails
    \/ ReadFails

SpecFault == Init /\ [][NextFault]_vars

\* ------------------------------------------------------ _crc8 on its own

\* bytes the sequences handed to _crc8 are made of
CrcSampleBytes == {0, 1, 49, 77, 98, 128, 190, 255}

CrcInputs == UNION { [1..n -> CrcSampleBytes] : n \in 0..MaxCrcLen }

CrcInit ==
    /\ DriverInit
    /\ WebIdle
    /\ crcIn \in CrcInputs
    /\ crcOut = -1
    /\ decA = 0
    /\ decB = 0
    /\ decOut = <<>>

\* self._crc8(crcIn)
CrcApply ==
    /\ crcOut = -1
    /\ crcOut' = crc8(crcIn)
    /\ UNCHANGED <<crcIn, decA, decB, decOut, driver, web>>

SpecCrc == CrcInit /\ [][CrcApply]_vars

\* ------------------------------- main, measuring known raw counts

\* Raw counts the sensor may report: the ends of the 16-bit range, a byte
\* boundary and mid-range, with their neighbours.
RawAnchors == {0, 256, 32768, 65535}
RawCounts ==
    { n \in 0..65535 :
        \E a \in RawAnchors : n >= a - RawWindow /\ n <= a + RawWindow }

\* The 6 bytes the sensor sends for the raw counts rawT and rawH: each word
\* high byte first, followed by its CRC byte.
SensorFrame(rawT, rawH) ==
    << rawT \div 256, rawT % 256, crc8(<<rawT \div 256, rawT % 256>>),
       rawH \div 256, rawH % 256, crc8(<<rawH \div 256, rawH % 256>>) >>

\* The sensor holds decA as temperature and decB as humidity for the first
\* measurement, and the two the other way round for the second; decOut
\* collects the pairs read_temperature_humidity returned.
DecodeInit ==
    /\ DriverInit
    /\ WebIdle
    /\ crcIn = <<>>
    /\ crcOut = -1
    /\ decA \in RawCounts
    /\ decB \in RawCounts
    /\ decOut = <<>>

\* main: sht31 = SHT31(), with the default arguments
MainConstruct ==
    /\ Construct
    /\ address' = SHT31_I2CADDR
    /\ i2c' = I2C_DEVICE_BUS

\* main: sht31.read_temperature_humidity() is called, at once after the
\* constructor and then after each time.sleep(2); twice at most
MainMeasure ==
    /\ pc = "ready"
    /\ Len(decOut) < 2
    /\ IF decOut = <<>> THEN TRUE ELSE now > bus[Len(bus)].at
    /\ MeasureBegin
    /\ op' = "read_temperature_humidity"

\* the block read delivers the sensor's frame, and the call returns
MainRead ==
    /\ LET frame == IF decOut = <<>> THEN SensorFrame(decA, decB)
                    ELSE SensorFrame(decB, decA)
       IN  MeasureRead([frame |-> frame, outcome |-> Measure(frame)])
    /\ decOut' = Append(decOut, <<ret'.t, ret'.h>>)
    /\ UNCHANGED <<crcIn, crcOut, decA, decB>>

NextMain ==
    \/ MainConstruct
    \/ InitSettle
    \/ MainMeasure
    \/ MeasureWait
    \/ MainRead
    \/ MainSleep

SpecMain == DecodeInit /\ [][NextMain]_vars

\* ----------------------------------------------------------------- app.py

\* The three routes of app.py.
Routes == {"temperature", "humidity", "temperature+humidity"}

\* sensor.read_temperature_humidity, written without a call: the bound
\* method itself.
BoundMethod == [kind |-> "method", name |-> "read_temperature_humidity"]

\* What the server answers when the view function raised: a 500 page, no
\* JSON document.
ServerError(exc) == [status |-> 500, exc |-> exc.exc]

\* Loading the module: sensor = SHT31(), with the default arguments.
ImportSensor ==
    /\ Construct
    /\ address' = SHT31_I2CADDR
    /\ i2c' = I2C_DEVICE_BUS

\* A GET on one of the routes: the view function is entered and calls
\* get_measurement().
Request(r, route) ==
    /\ pc = "ready"
    /\ reqPc[r] = "idle"
    /\ reqPc' = [reqPc EXCEPT ![r] = "get_measurement"]
    /\ reqRoute' = [reqRoute EXCEPT ![r] = route]
    /\ UNCHANGED <<response, last_measurement, last_measurement_time,
                   driver, bench>>

\* get_measurement, line 58: the attribute is read, not called, and the
\* two-name assignment cannot unpack a method: TypeError.  Nothing after
\* that line runs, in get_measurement or in the view function; the driver
\* is not called and the globals are not assigned.
GetMeasurement(r) ==
    /\ reqPc[r] = "get_measurement"
    /\ LET value == BoundMethod
       IN  /\ value.kind # "tuple"
           /\ response' = [response EXCEPT ![r] = ServerError(TypeError)]
    /\ reqPc' = [reqPc EXCEPT ![r] = "done"]
    /\ UNCHANGED <<reqRoute, last_measurement, last_measurement_time,
                   driver, bench>>

NextApp ==
    \/ ImportSensor
    \/ InitSettle
    \/ \E r \in Requests : \E route \in Routes : Request(r, route)
    \/ \E r \in Requests : GetMeasurement(r)

SpecApp == Init /\ [][NextApp]_vars


\* ----------------------------------------------------- vocabulary of claims

\* The operation `name` has returned: its result and bus traffic are final.
Done(name) == pc = "ready" /\ op = name

\* byte[2] = crc8(bytes[0:2]) for a data word followed by its CRC byte
CrcOk(triplet) == triplet[3] = crc8(SubSeq(triplet, 1, 2))
GoodTriplets == { t \in MeasTriplets \cup StatusFrames : CrcOk(t) }

TempCrcOk == Len(buffer) = 6 /\ SubSeq(buffer, 1, 3) \in GoodTriplets
HumCrcOk == Len(buffer) = 6 /\ SubSeq(buffer, 4, 6) \in GoodTriplets
StatusCrcOk == Len(buffer) = 3 /\ buffer \in GoodTriplets

IsWrite(e, cmd) ==
    /\ e.ev = "write"
    /\ e.addr = address
    /\ e.reg \in 0..255
    /\ e.arg \in 0..255
    /\ e.reg * 256 + e.arg = cmd

IsRead(e, register, length) ==
    /\ e.ev = "read"
    /\ e.addr = address
    /\ e.reg = register
    /\ e.arg = length

\* ------------------------------------------------------------------- C1

\* C1: for every 6-byte frame, read_temperature_humidity() returns a NaN
\* temperature if and only if byte[2] # crc8(bytes[0:2]) and a NaN humidity
\* if and only if byte[5] # crc8(bytes[3:5]): the two fields are validated
\* independently.
C1_IndependentValidation ==
    Done("read_temperature_humidity") =>
        /\ ret.t.isNaN <=> ~TempCrcOk
        /\ ret.h.isNaN <=> ~HumCrcOk

\* ------------------------------------------------------------------- C2

\* C2: read_status() writes ReadStatus, then issues one 3-byte block read at
\* register 0, and returns None when byte[2] # crc8(bytes[0:2]) and the word
\* byte[0]*256 + byte[1] otherwise; never a number for a frame with a wrong
\* CRC byte.
C2_ReadStatus ==
    op = "read_status" =>
        /\ Len(bus) >= 1
        /\ IsWrite(bus[1], 62253)
        /\ bus[1].reg = 243 /\ bus[1].arg = 45
        /\ \A i \in DOMAIN bus : i > 1 => i = 2 /\ IsRead(bus[i], 0, 3)
        /\ pc = "ready" =>
             /\ Len(bus) = 2
             /\ Len(buffer) = 3
             /\ ~StatusCrcOk => ret = None
             /\ StatusCrcOk => ret = IntVal(buffer[1] * 256 + buffer[2])

\* read_status() has returned None for the all-zero word with a wrong CRC byte
C2_Witness ==
    /\ Done("read_status")
    /\ buffer = <<0, 0, 0>>
    /\ ~StatusCrcOk
    /\ ret = None

\* ------------------------------------------------------------------- C3

\* C3: when the status frame read during a predicate call fails its CRC
\* check, the predicate does not return a boolean: the failure reaches the
\* caller (as the TypeError of None & mask).
C3_PredicatePropagates ==
    (op \in PredicateOps /\ pc = "ready" /\ ~StatusCrcOk) =>
        /\ ret.kind = "raise"
        /\ ret.kind # "bool"

\* is_heater_active() has raised on the heater word with a wrong CRC byte
C3_Witness ==
    /\ Done("is_heater_active")
    /\ buffer = <<32, 0, 0>>
    /\ ~StatusCrcOk
    /\ ret = TypeError

\* ------------------------------------------------------------------- C4

\* C4: every call of read_temperature_humidity() performs, in this order,
\* one write of register byte 0x24 with data byte 0x00, a wait of at least
\* 15 ms, and one 6-byte block read at register 0; the read is never before
\* the write and never less than 15 ms after it.
C4_MeasureSequence ==
    op = "read_temperature_humidity" =>
        /\ Len(bus) >= 1
        /\ IsWrite(bus[1], 9216)
        /\ bus[1].reg = 36 /\ bus[1].arg = 0
        /\ \A i \in DOMAIN bus : i > 1 =>
             /\ i = 2
             /\ IsRead(bus[i], 0, 6)
             /\ bus[i].at - bus[1].at >= 15
        /\ pc = "meas_read" => now - bus[1].at >= 15
        /\ pc = "ready" => Len(bus) = 2

\* a combined read has returned whose block read came exactly 15 ms after
\* its command write
C4_Witness ==
    /\ Done("read_temperature_humidity")
    /\ Len(bus) = 2
    /\ bus[2].ev = "read"
    /\ bus[2].at - bus[1].at = 15

\* ------------------------------------------------------------------- C5

\* the opcode constant each operation is to issue
Opcodes(name) ==
    CASE name \in MeasOps -> {SHT31_MEAS_HIGHREP}
      [] name \in StatusOps -> {SHT31_READSTATUS}
      [] name = "clear_status" -> {SHT31_CLEARSTATUS}
      [] name = "reset" -> {SHT31_SOFTRESET}
      [] name = "set_heater" -> {SHT31_HEATER_ON, SHT31_HEATER_OFF}
      [] OTHER -> {}

\* C5: every command the driver issues is a single bus write to the address
\* given at construction, with the opcode's high byte as register byte and
\* its low byte as data byte: register*256 + data is the opcode constant.
C5_CommandEncoding ==
    /\ Len(Writes(bus)) <= 1
    /\ \A i \in DOMAIN bus : bus[i].ev = "write" =>
         /\ i = 1
         /\ bus[i].addr = address
         /\ bus[i].reg \in 0..255
         /\ bus[i].arg \in 0..255
         /\ bus[i].reg * 256 + bus[i].arg \in Opcodes(op)
    /\ op \notin {"none", "__init__"} => Len(Writes(bus)) = 1
    /\ prevWrite.ev = "write" => prevWrite.addr = address

\* HeaterOn has gone out as register 0x30, data 0x6D to the alternate address
C5_Witness ==
    /\ Done("set_heater")
    /\ address = 69
    /\ bus = <<[ev |-> "write", addr |-> 69, reg |-> 48, arg |-> 109,
               at |-> now]>>

\* ------------------------------------------------------------------- C6

\* C6: no operation retries: each call of read_temperature_humidity() issues
\* exactly one measurement command write and one block read, each call of
\* read_status() exactly one ReadStatus write and one block read, whether
\* the CRC checks of the frame pass or fail.
C6_NoRetry ==
    op \in {"read_temperature_humidity", "read_status"} =>
        /\ Len(Writes(bus)) = 1
        /\ Len(Reads(bus)) <= 1
        /\ pc = "ready" => Len(Reads(bus)) = 1 /\ Len(bus) = 2
        /\ pc # "ready" => Len(Reads(bus)) = 0

\* a combined read whose temperature CRC failed has returned after one write
\* and one read
C6_Witness ==
    /\ Done("read_temperature_humidity")
    /\ ~TempCrcOk
    /\ Len(Writes(bus)) = 1
    /\ Len(Reads(bus)) = 1

\* ------------------------------------------------------------------- C7

\* the positions of an operation under way; every other position is Ready
\* or precedes construction
Ready == pc = "ready"
Busy == pc \in {"reset_sleep", "status_read", "meas_sleep", "meas_read"}

\* C7: the driver has no faulted state: whatever CRC failures earlier reads
\* met, every operation ends in Ready, where the next operation can start,
\* and a read_temperature_humidity() whose frame has two valid CRCs returns
\* two finite values, those of its own frame.
C7_NoFaultedState ==
    /\ pc \in {"uninit", "init_sleep"} \/ Ready \/ Busy
    /\ (Ready /\ ClockOpen) => ENABLED MeasureBegin
    /\ (Done("read_temperature_humidity") /\ TempCrcOk /\ HumCrcOk) =>
         /\ ~ret.t.isNaN
         /\ ~ret.h.isNaN
         /\ ret.t.num = 175 * (buffer[1] * 256 + buffer[2]) - 45 * 65535
         /\ ret.h.num = 100 * (buffer[4] * 256 + buffer[5])

\* after two or more CRC failures, a combined read of a frame with two valid
\* CRCs has returned two finite values
C7_Witness ==
    /\ Done("read_temperature_humidity")
    /\ crcFailures >= 2
    /\ TempCrcOk /\ HumCrcOk
    /\ ~ret.t.isNaN /\ ~ret.h.isNaN

\* ------------------------------------------------------------------- C8

\* C8: reset() writes SoftReset (0x30A2) and returns no sooner than 10 ms
\* after that write, in Ready; so no command is written to the bus less than
\* 10 ms after a SoftReset write.
C8_ResetSettling ==
    /\ op = "reset" =>
         /\ pc \in {"reset_sleep", "ready"}
         /\ Len(bus) = 1
         /\ IsWrite(bus[1], 12450)
         /\ pc = "ready" => now - bus[1].at >= 10
    /\ (prevWrite.ev = "write" /\ prevWrite.reg * 256 + prevWrite.arg = 12450) =>
         \A i \in DOMAIN bus : bus[i].ev = "write" =>
             bus[i].at - prevWrite.at >= 10

\* a measurement command has been written exactly 10 ms after a SoftReset
\* write
C8_Witness ==
    /\ op = "read_temperature_humidity"
    /\ prevWrite.ev = "write"
    /\ prevWrite.reg = 48 /\ prevWrite.arg = 162
    /\ Len(bus) >= 1
    /\ bus[1].ev = "write"
    /\ bus[1].at - prevWrite.at = 10

\* ------------------------------------------------------------------- C9

\* C9: construction opens the bus and returns no sooner than 50 ms later: the
\* driver is never Ready, and no command is ever written, less than 50 ms
\* after the bus was opened.
C9_PowerOnSettling ==
    /\ pc \in {"uninit", "init_sleep"} => bus = <<>> /\ prevWrite.ev = "none"
    /\ pc \notin {"uninit", "init_sleep"} => now - openedAt >= 50
    /\ \A i \in DOMAIN bus : bus[i].at - openedAt >= 50
    /\ prevWrite.ev = "write" => prevWrite.at - openedAt >= 50

\* the first command has been written exactly 50 ms after the bus was opened
C9_Witness ==
    /\ prevWrite.ev = "none"
    /\ Len(bus) >= 1
    /\ bus[1].ev = "write"
    /\ bus[1].at - openedAt = 50

\* ------------------------------------------------------------------- C10

\* C10: read_temperature() and read_humidity() each perform exactly one full
\* combined measurement (one MeasureHighRep write, the 15 ms wait, one 6-byte
\* read, both CRC checks) and return exactly the temperature, respectively
\* the humidity, that read_temperature_humidity() produces for that frame.
C10_SingleFieldReads ==
    (op \in {"read_temperature", "read_humidity"} /\ pc = "ready") =>
        /\ Len(bus) = 2
        /\ IsWrite(bus[1], 9216)
        /\ IsRead(bus[2], 0, 6)
        /\ bus[2].at - bus[1].at >= 15
        /\ crcCalls = 2
        /\ ret.kind = "float"
        /\ op = "read_temperature" =>
             ret.f = read_temperature_humidity(buffer)[1]
        /\ op = "read_humidity" =>
             ret.f = read_temperature_humidity(buffer)[2]


\* ------------------------------------------------------------------- C11

\* Exclusive or of two naturals, for the reference register.
RECURSIVE BitXor(_, _)
BitXor(a, b) ==
    IF a = 0 THEN b
    ELSE IF b = 0 THEN a
    ELSE (((a % 2) + (b % 2)) % 2) + 2 * BitXor(a \div 2, b \div 2)

\* The reference CRC-8: an 8-bit register, polynomial 0x31, initial value
\* 0xFF, most significant bit first, no reflection, no final XOR.
RefShift(reg) ==
    IF reg >= 128 THEN BitXor((reg * 2) % 256, 49) ELSE (reg * 2) % 256

RefByte(reg, byte) ==
    LET r0 == BitXor(reg, byte)
        r1 == RefShift(r0)
        r2 == RefShift(r1)
        r3 == RefShift(r2)
        r4 == RefShift(r3)
        r5 == RefShift(r4)
        r6 == RefShift(r5)
        r7 == RefShift(r6)
    IN  RefShift(r7)

RECURSIVE RefCrc8(_)
RefCrc8(bytes) ==
    IF bytes = <<>> THEN 255
    ELSE RefByte(RefCrc8(SubSeq(bytes, 1, Len(bytes) - 1)), bytes[Len(bytes)])

\* C11: for every byte sequence, the empty one included (0xFF), _crc8
\* returns a value in 0..255 equal to the reference CRC-8 computed with an
\* 8-bit register, although the code's register is never masked between
\* shifts.
C11_Crc8IsReference ==
    crcOut # -1 =>
        /\ crcOut \in 0..255
        /\ crcOut = RefCrc8(crcIn)
        /\ crcIn = <<>> => crcOut = 255

\* _crc8 has returned 0x7C for [0x62, 0x4D], its register having outgrown
\* 8 bits on the way
C11_Witness ==
    /\ crcIn = <<98, 77>>
    /\ crcOut = 124
    /\ \E i \in 9..Len(CrcBytes(ToBits(255), crcIn, 1)) :
         CrcBytes(ToBits(255), crcIn, 1)[i] = 1

\* ------------------------------------------------------------------- C12

\* the bit each predicate is named after, as the documentation lists them
NamedBit(name) ==
    CASE name = "is_data_crc_error" -> 1
      [] name = "is_command_error" -> 2
      [] name = "is_reset_detected" -> 16
      [] name = "is_tracking_temperature_alert" -> 1024
      [] name = "is_tracking_humidity_alert" -> 2048
      [] name = "is_heater_active" -> 8192
      [] name = "is_alert_pending" -> 32768

\* C12: for every 3-byte status frame with a valid CRC, each status
\* predicate returns true if and only if its named bit is set in the word
\* byte[0]*256 + byte[1]; is_heater_active() is true exactly when bit
\* 0x2000 is set.
C12_PredicateBits ==
    (op \in PredicateOps /\ pc = "ready" /\ StatusCrcOk) =>
        LET word == buffer[1] * 256 + buffer[2]
        IN  /\ ret.kind = "bool"
            /\ ret.val <=> (word \div NamedBit(op)) % 2 = 1

\* is_heater_active() has returned true for the word 0x2000 with its CRC
C12_Witness ==
    /\ Done("is_heater_active")
    /\ buffer = <<32, 0, 93>>
    /\ StatusCrcOk
    /\ ret = BoolVal(TRUE)

\* ------------------------------------------------------------------- C13

\* C13: for a frame with valid CRCs the decoded values are the big-endian
\* raw counts mapped by t = 175*raw_t/65535 - 45 and h = 100*raw_h/65535:
\* raw 0 gives -45 and 0, raw 0xFFFF gives 130 and 100, every result lies
\* in [-45, 130] and [0, 100], and the results are non-decreasing in the
\* raw count.  (Values are the numerators over 65535.)
C13_TransferFunctions ==
    (Len(decOut) = 2 /\ pc = "ready") =>
        LET tA == decOut[1][1]
            hB == decOut[1][2]
            tB == decOut[2][1]
            hA == decOut[2][2]
        IN  /\ ret = TupleVal(decOut[2])
            /\ buffer = SensorFrame(decB, decA)
            /\ ~tA.isNaN /\ ~hB.isNaN /\ ~tB.isNaN /\ ~hA.isNaN
            /\ tA.num = 175 * decA - 45 * 65535
            /\ hA.num = 100 * decA
            /\ decA = 0 => tA.num = (-45) * 65535 /\ hA.num = 0
            /\ decA = 65535 => tA.num = 130 * 65535 /\ hA.num = 100 * 65535
            /\ tA.num >= (-45) * 65535 /\ tA.num <= 130 * 65535
            /\ hA.num >= 0 /\ hA.num <= 100 * 65535
            /\ decA <= decB => tA.num <= tB.num /\ hA.num <= hB.num

\* the two ends of the range decoded: -45 and 100 %, 130 and 0 %
C13_Witness ==
    /\ Done("read_temperature_humidity")
    /\ Len(Reads(bus)) = 1
    /\ bus[1].at >= 2000
    /\ decA = 0
    /\ decB = 65535
    /\ decOut = << <<Float((-45) * 65535), Float(100 * 65535)>>,
                   <<Float(130 * 65535), Float(0)>> >>

\* ------------------------------------------------------------------- C14

\* the fields a route's document is to carry besides name and timestamp
RouteFields(route) ==
    CASE route = "temperature" -> {"temperature"}
      [] route = "humidity" -> {"humidity"}
      [] route = "temperature+humidity" -> {"temperature", "humidity"}

\* C14: on each of the three routes a GET completes with a JSON document
\* whose temperature field (when present) is the temperature and whose
\* humidity field (when present) is the humidity that the driver's
\* read_temperature_humidity() returned for the request: temperature only,
\* humidity only, or both.
C14_RoutesReportMeasurement ==
    \A r \in Requests : reqPc[r] = "done" =>
        /\ response[r].status = 200
        /\ op = "read_temperature_humidity"
        /\ DOMAIN response[r].json =
             {"name", "timestamp"} \cup RouteFields(reqRoute[r])
        /\ "temperature" \in RouteFields(reqRoute[r]) =>
             response[r].json.temperature = ret.t
        /\ "humidity" \in RouteFields(reqRoute[r]) =>
             response[r].json.humidity = ret.h

\* ------------------------------------------------------------------- C15

\* C15: a bus I/O failure is never handled inside the driver: when the
\* command write or the block read of an operation fails, the operation
\* ends there with that failure and returns no measurement or status value;
\* in read_temperature_humidity() and read_status() a failed command write
\* is followed by no block read.
C15_TransportFailurePropagates ==
    /\ \A i \in DOMAIN bus :
         bus[i].ev \in {"write_failed", "read_failed"} =>
            /\ i = Len(bus)
            /\ pc = "ready"
            /\ ret = [kind |-> "raise", exc |-> "IOError"]
    /\ (Len(bus) >= 1 /\ bus[1].ev = "write_failed") =>
         /\ Len(bus) = 1
         /\ Reads(bus) = <<>>
         /\ buffer = <<>>
    /\ ret.kind = "raise" /\ ret.exc = "IOError" =>
         bus[Len(bus)].ev \in {"write_failed", "read_failed"}

\* read_status() has ended with the I/O error of its block read, after its
\* command write went through
C15_Witness ==
    /\ Done("read_status")
    /\ Len(bus) = 2
    /\ bus[1].ev = "write"
    /\ bus[2].ev = "read_failed"
    /\ ret = IOError

\* ------------------------------------------------------------------- C16

\* C16: the fire-and-forget operations issue exactly one bus write and no
\* bus read: set_heater(true) writes 0x306D, set_heater(false) 0x3066,
\* clear_status() 0x3041, reset() 0x30A2; none reads a response frame.
C16_FireAndForget ==
    op \in {"reset", "clear_status", "set_heater"} =>
        /\ Len(bus) = 1
        /\ bus[1].ev = "write"
        /\ Reads(bus) = <<>>
        /\ buffer = <<>>
        /\ bus[1].reg * 256 + bus[1].arg =
             CASE op = "reset" -> 12450
               [] op = "clear_status" -> 12353
               [] op = "set_heater" ->
                    IF args = <<TRUE>> THEN 12397 ELSE 12390
        /\ op = "set_heater" => args \in {<<TRUE>>, <<FALSE>>}
        /\ pc = "ready" => ret = None

\* set_heater(False) has returned after writing 0x30, 0x66 and nothing else
C16_Witness ==
    /\ Done("set_heater")
    /\ args = <<FALSE>>
    /\ Len(bus) = 1
    /\ bus[1].ev = "write"
    /\ bus[1].reg = 48
    /\ bus[1].arg = 102

\* ------------------------------------------------------------------- C18

\* C18: the timestamp of every HTTP response is the time captured by that
\* request's own get_measurement() call, whatever other requests did to the
\* global last_measurement_time in between.
C18_OwnTimestamp ==
    \A r \in Requests : reqPc[r] = "done" =>
        /\ last_measurement_time # None
        /\ "json" \in DOMAIN response[r]
        /\ response[r].json.timestamp.capturedBy = r

\* ------------------------------------------------------------------- C19

\* C19: the constructor parameters are honoured: every bus transaction uses
\* the address passed as `address`, and the bus opened by the constructor
\* is the one whose index was passed as `i2c`.
C19_ConstructorParameters ==
    pc # "uninit" =>
        /\ device = i2c
        /\ \A k \in DOMAIN bus : bus[k].addr = address

====
